---- MODULE Spec2Model ----
(***************************************************************************)
(* Model of the Hugging Face transformers.js provider for the AI SDK:      *)
(* the adapter instances (chat, completion, their OpenAI-compatible        *)
(* variants and the embedding adapter), their lazily loaded pipeline       *)
(* handle, and the generate / stream / embed calls running on them.        *)
(*                                                                         *)
(* One action is one run of JavaScript between two awaits.  The pipeline   *)
(* factory, the pipeline and the ReadableStream are the environment: the   *)
(* factory and the pipeline settle with any outcome, the consumer of a     *)
(* stream only reads.  Strings are sequences of one-character strings.     *)
(* Temperatures are integers in tenths (3 stands for 0.3).                 *)
(***************************************************************************)
EXTENDS Integers, Sequences, FiniteSets, TLC

\* ---------------------------------------------------------------- bounds
MaxInst == 2
MaxCalls == 2
MaxEmit == 2
MaxValues == 2
MaxLoads == 3
MaxMessages == 2

\* ------------------------------------------------------------- constants
maxEmbeddingsPerCall == 2048
DefaultMaxTokens == 512
DefaultTemperature == 0
CharsPerToken == 4

NoPipe == 0
NoError == "none"

LMKinds == {"chat", "chatOpenAICompatible", "completion", "completionOpenAICompatible"}
StreamKinds == {"chat", "chatOpenAICompatible"}
Kinds == LMKinds \cup {"embedding"}

Inst == 1..MaxInst
CallId == 1..MaxCalls

\* ------------------------------------------------------------ the inputs
PromptHello == [type |-> "string", text |-> <<"H", "i">>]
PromptMessages ==
  [type |-> "messages",
   messages |-> << [role |-> <<"u">>, content |-> [type |-> "string", text |-> <<"H", "i">>]],
                   [role |-> <<"a">>, content |-> [type |-> "parts",
                       parts |-> << [text |-> <<"y">>], [image |-> <<"z">>], [text |-> <<"o">>] >>]] >>]
Prompts == {PromptHello, PromptMessages}

Temperatures == {-1, 0, 3}
TokenLimits == {1}

\* options of a generate or stream call: maxTokens and temperature are optional
LMOptions ==
  [prompt : Prompts] \cup [prompt : Prompts, temperature : Temperatures]
    \cup [prompt : {PromptHello}, maxTokens : TokenLimits, temperature : {3}]

LoadErrors == {"LoadError", "OutOfMemory"}
GenErrors == {"GenerationError", "Aborted"}
GenTexts == {<<>>, <<"o", "k", "a", "y", "!">>}
\* what the text-generation pipeline can resolve with: [{generated_text, finish_reason}],
\* [{"-1": {generated_text}}] (the shape of the mocked pipeline) and []
GenOutputs ==
  [shape : {"flat"}, generated_text : GenTexts, finish_reason : {"stop", "length"}]
    \cup [shape : {"nested"}, generated_text : {<<"o", "k", "a", "y", "!">>}]
    \cup {[shape |-> "empty"]}

\* ------------------------------------------------------ pure functions
\* o.f ?? d
Nullish(o, f, d) == IF f \in DOMAIN o THEN o[f] ELSE d

DoSampleInclusive(options) == Nullish(options, "temperature", DefaultTemperature) >= 0
\* do_sample: (options.temperature ?? 0) > 0
DoSample(options) == Nullish(options, "temperature", DefaultTemperature) > 0

GenerationOptions(options) ==
  [max_new_tokens |-> Nullish(options, "maxTokens", DefaultMaxTokens),
   do_sample |-> DoSample(options),
   temperature |-> Nullish(options, "temperature", DefaultTemperature)]

RECURSIVE JoinTrailing(_, _)
JoinTrailing(strs, sep) ==
  IF Len(strs) = 0 THEN <<>>
  ELSE strs[1] \o sep \o JoinTrailing(Tail(strs), sep)

RECURSIVE Join(_, _)
\* Array.prototype.join on an array of strings
Join(strs, sep) ==
  IF Len(strs) = 0 THEN <<>>
  ELSE IF Len(strs) = 1 THEN strs[1]
  ELSE strs[1] \o sep \o Join(Tail(strs), sep)

RECURSIVE TextPartsKeeping(_)
TextPartsKeeping(parts) ==
  IF Len(parts) = 0 THEN <<>>
  ELSE IF "text" \in DOMAIN parts[1] THEN <<parts[1].text>> \o TextPartsKeeping(Tail(parts))
  ELSE << <<>> >> \o TextPartsKeeping(Tail(parts))

RECURSIVE TextParts(_)
\* content.filter(part => 'text' in part).map(part => part.text)
TextParts(parts) ==
  IF Len(parts) = 0 THEN <<>>
  ELSE IF "text" \in DOMAIN parts[1] THEN <<parts[1].text>> \o TextParts(Tail(parts))
  ELSE TextParts(Tail(parts))

RenderMessageBare(message) ==
  IF message.content.type = "parts" THEN Join(TextParts(message.content.parts), <<" ">>)
  ELSE IF message.content.type = "string" THEN message.content.text
  ELSE <<>>

\* the callback of prompt.map(...)
RenderMessage(message) ==
  IF message.content.type = "parts" THEN Join(TextParts(message.content.parts), <<" ">>)
  ELSE IF message.content.type = "string" THEN message.role \o <<":", " ">> \o message.content.text
  ELSE <<>>

ConvertPromptToStringLabelled(prompt) ==
  IF prompt.type = "string" THEN <<"u", ":", " ">> \o prompt.text
  ELSE IF prompt.type = "messages"
    THEN Join([k \in 1..Len(prompt.messages) |-> RenderMessage(prompt.messages[k])], <<"\n">>)
  ELSE <<>>

ConvertPromptToString(prompt) ==
  IF prompt.type = "string" THEN prompt.text
  ELSE IF prompt.type = "messages"
    THEN Join([k \in 1..Len(prompt.messages) |-> RenderMessage(prompt.messages[k])], <<"\n">>)
  ELSE <<>>

\* 'text' in part throws a TypeError when part is not an object
PartThrows(part) == "primitive" \in DOMAIN part

\* convertPromptToString throws: some content array holds a value that is no object
ConvertThrows(prompt) ==
  /\ prompt.type = "messages"
  /\ \E k \in 1..Len(prompt.messages) :
       /\ prompt.messages[k].content.type = "parts"
       /\ \E j \in 1..Len(prompt.messages[k].content.parts) :
            PartThrows(prompt.messages[k].content.parts[j])

\* Math.ceil(text.length / 4)
EstimateTokens(text) == (Len(text) + CharsPerToken - 1) \div CharsPerToken

\* the finish-reason mapper of the OpenAI-compatible variants
MapOpenAICompatibleFinishReason(raw) ==
  CASE raw = "stop" -> "stop"
    [] raw = "length" -> "length"
    [] raw = "content_filter" -> "content-filter"
    [] raw \in {"function_call", "tool_calls"} -> "tool-calls"
    [] OTHER -> "unknown"

\* JSON.stringify({prompt, ...generationOptions}): the keys in insertion order
RequestBody(promptArg, genOpts) ==
  << <<"prompt", promptArg>>, <<"max_new_tokens", genOpts.max_new_tokens>>,
     <<"do_sample", genOpts.do_sample>>, <<"temperature", genOpts.temperature>> >>

\* the text the adapter hands to the pipeline: the chat adapters flatten the
\* prompt, the completion adapters pass options.prompt as it is
PipelinePrompt(k, options) ==
  IF k \in StreamKinds
    THEN [type |-> "string", text |-> ConvertPromptToString(options.prompt)]
    ELSE options.prompt

\* what doGenerate makes of the resolved pipeline output
GenerateOutcome(k, options, out) ==
  LET promptArg == PipelinePrompt(k, options)
      genOpts == GenerationOptions(options)
      body == RequestBody(promptArg, genOpts)
      full(text) ==
        [text |-> text, finishReason |-> "stop",
         usage |-> [promptTokens |-> EstimateTokens(promptArg.text),
                    completionTokens |-> EstimateTokens(text)],
         rawCall |-> [rawPrompt |-> promptArg.text, rawSettings |-> genOpts],
         rawResponse |-> out, request |-> body]
  IN CASE k = "chat" ->
            IF out.shape = "empty" THEN [ok |-> FALSE, error |-> "Error"]
            ELSE IF out.shape = "nested" THEN [ok |-> FALSE, error |-> "TypeError"]
            ELSE [ok |-> TRUE, value |-> full(out.generated_text)]
       [] k = "chatOpenAICompatible" ->
            IF out.shape = "nested" THEN [ok |-> TRUE, value |-> full(out.generated_text)]
            ELSE [ok |-> FALSE, error |-> "TypeError"]
       [] k = "completion" ->
            IF out.shape = "empty" THEN [ok |-> FALSE, error |-> "TypeError"]
            ELSE IF out.shape = "nested"
              THEN [ok |-> TRUE, value |-> [rawResponse |-> out, request |-> body]]
            ELSE [ok |-> TRUE, value |-> [text |-> out.generated_text,
                                          rawResponse |-> out, request |-> body]]
       [] OTHER ->
            IF out.shape = "empty" THEN [ok |-> FALSE, error |-> "TypeError"]
            ELSE IF out.shape = "nested"
              THEN [ok |-> TRUE, value |-> [finishReason |-> MapOpenAICompatibleFinishReason("undefined"),
                                            rawResponse |-> out, request |-> body]]
            ELSE [ok |-> TRUE, value |-> [text |-> out.generated_text,
                                          finishReason |-> MapOpenAICompatibleFinishReason(out.finish_reason),
                                          rawResponse |-> out, request |-> body]]

\* ---------------------------------------------------------------- state
VARIABLES
  kind,              \* kind[i]: the class of adapter instance i, "none" before its construction
  pipelineInstance,  \* pipelineInstance[i]: this.pipelineInstance, NoPipe while undefined
  factoryCalls,      \* factoryCalls[i]: invocations of pipeline(...) made by instance i
  handles,           \* pipeline objects the factory has been asked for so far
  calls              \* calls[c]: one doGenerate / doStream / doEmbed call

vars == <<kind, pipelineInstance, factoryCalls, handles, calls>>

NoOptions == [none |-> TRUE]
NoStream == [state |-> "none", queue |-> <<>>, closeRequested |-> FALSE, storedError |-> NoError]

IdleCall ==
  [pc |-> "idle", inst |-> 0, op |-> "none", options |-> NoOptions,
   loading |-> NoPipe, loads |-> 0, pn |-> NoPipe,
   args |-> <<>>, gen |-> "none", thrown |-> NoError, error |-> NoError, result |-> NoOptions,
   stream |-> NoStream, handed |-> FALSE, emitted |-> <<>>, received |-> <<>>,
   readError |-> NoError, terminals |-> 0, delivered |-> <<>>,
   embeddings |-> <<>>, outputs |-> <<>>]

Init ==
  /\ kind = [i \in Inst |-> "none"]
  /\ pipelineInstance = [i \in Inst |-> NoPipe]
  /\ factoryCalls = [i \in Inst |-> 0]
  /\ handles = 0
  /\ calls = [c \in CallId |-> IdleCall]

\* the call slots are taken in order
FreeSlot(c) ==
  /\ calls[c].pc = "idle"
  /\ \A d \in CallId : d < c => calls[d].pc # "idle"

\* ----------------------------------------------------- provider factory
\* createChatModel / createCompletionModel / createEmbeddingModel, or a
\* constructor called directly: a new instance, its pipeline handle unset
NewAdapter(i, k) ==
  /\ kind[i] = "none"
  /\ \A j \in Inst : j < i => kind[j] # "none"
  /\ kind' = [kind EXCEPT ![i] = k]
  /\ UNCHANGED <<pipelineInstance, factoryCalls, handles, calls>>

\* ------------------------------------------------------- ensurePipeline
NeedsLoadAlways(p) == TRUE
\* !this.pipelineInstance
NeedsLoad(p) == p = NoPipe

RejectedAs(call, e) == [call EXCEPT !.pc = "rejected", !.error = "Error"]
\* the call's promise rejects with the error that was thrown
Rejected(call, e) == [call EXCEPT !.pc = "rejected", !.error = e]

\* ensurePipeline(), had it looked at the signal of the call
EnsurePipelineAbortable(c, i, call) ==
  IF "abortSignal" \in DOMAIN call.options /\ call.options.abortSignal.aborted
    THEN /\ calls' = [calls EXCEPT ![c] = Rejected(call, "AbortError")]
         /\ UNCHANGED <<factoryCalls, handles>>
    ELSE IF NeedsLoad(pipelineInstance[i])
      THEN /\ handles < MaxLoads
           /\ factoryCalls' = [factoryCalls EXCEPT ![i] = @ + 1]
           /\ handles' = handles + 1
           /\ calls' = [calls EXCEPT ![c] =
                [call EXCEPT !.pc = "loading", !.loading = handles + 1, !.loads = @ + 1]]
      ELSE /\ calls' = [calls EXCEPT ![c] =
                [call EXCEPT !.pc = "ensured", !.pn = pipelineInstance[i]]]
           /\ UNCHANGED <<factoryCalls, handles>>

\* the synchronous part of ensurePipeline(), run by call c on instance i:
\* either the factory is invoked and awaited, or the stored handle is returned
EnsurePipeline(c, i, call) ==
  IF NeedsLoad(pipelineInstance[i])
    THEN /\ handles < MaxLoads
         /\ factoryCalls' = [factoryCalls EXCEPT ![i] = @ + 1]
         /\ handles' = handles + 1
         /\ calls' = [calls EXCEPT ![c] =
              [call EXCEPT !.pc = "loading", !.loading = handles + 1, !.loads = @ + 1]]
    ELSE /\ calls' = [calls EXCEPT ![c] =
              [call EXCEPT !.pc = "ensured", !.pn = pipelineInstance[i]]]
         /\ UNCHANGED <<factoryCalls, handles>>

\* doGenerate / doStream of a language-model adapter, up to its first await
StartLM(c, i, op, o) ==
  /\ FreeSlot(c)
  /\ kind[i] \in LMKinds
  /\ EnsurePipeline(c, i, [IdleCall EXCEPT !.inst = i, !.op = op, !.options = o])
  /\ UNCHANGED <<kind, pipelineInstance>>

LoadResolveShared(c) ==
  /\ calls[c].pc = "loading"
  /\ pipelineInstance' = [i \in Inst |->
       IF kind[i] = kind[calls[c].inst] THEN calls[c].loading ELSE pipelineInstance[i]]
  /\ calls' = [calls EXCEPT ![c].pc = "ensured", ![c].pn = calls[c].loading]
  /\ UNCHANGED <<kind, factoryCalls, handles>>

\* the factory promise resolves: this.pipelineInstance = <the new pipeline>
LoadResolve(c) ==
  /\ calls[c].pc = "loading"
  /\ pipelineInstance' = [pipelineInstance EXCEPT ![calls[c].inst] = calls[c].loading]
  /\ calls' = [calls EXCEPT ![c].pc = "ensured", ![c].pn = calls[c].loading]
  /\ UNCHANGED <<kind, factoryCalls, handles>>

LoadRejectRemembered(c, e) ==
  /\ calls[c].pc = "loading"
  /\ pipelineInstance' = [pipelineInstance EXCEPT ![calls[c].inst] = calls[c].loading]
  /\ calls' = [calls EXCEPT ![c] = Rejected([calls[c] EXCEPT !.thrown = e], e)]
  /\ UNCHANGED <<kind, factoryCalls, handles>>

\* the factory promise rejects: the error leaves ensurePipeline and the call
LoadReject(c, e) ==
  /\ calls[c].pc = "loading"
  /\ calls' = [calls EXCEPT ![c] = Rejected([calls[c] EXCEPT !.thrown = e], e)]
  /\ UNCHANGED <<kind, pipelineInstance, factoryCalls, handles>>

\* ----------------------------------------------------------- doGenerate
PipelineArgs(k, options, streaming) ==
  [prompt |-> PipelinePrompt(k, options), options |-> GenerationOptions(options),
   streamer |-> streaming]

\* after ensurePipeline: flatten the prompt, derive the options, call pn
GenerateInvoke(c) ==
  /\ calls[c].pc = "ensured"
  /\ calls[c].op = "generate"
  /\ calls' = IF kind[calls[c].inst] \in StreamKinds /\ ConvertThrows(calls[c].options.prompt)
       THEN [calls EXCEPT ![c] = Rejected(calls[c], "TypeError")]
       ELSE [calls EXCEPT ![c].pc = "generating", ![c].gen = "running",
               ![c].args = Append(@, PipelineArgs(kind[calls[c].inst], calls[c].options, FALSE))]
  /\ UNCHANGED <<kind, pipelineInstance, factoryCalls, handles>>

\* pn resolves with out: the result is built, or building it throws
GenerateResolve(c, out) ==
  /\ calls[c].pc = "generating"
  /\ calls[c].op = "generate"
  /\ LET res == GenerateOutcome(kind[calls[c].inst], calls[c].options, out)
     IN calls' = [calls EXCEPT ![c] =
          IF res.ok THEN [calls[c] EXCEPT !.pc = "resolved", !.gen = "resolved", !.result = res.value]
          ELSE Rejected([calls[c] EXCEPT !.gen = "resolved"], res.error)]
  /\ UNCHANGED <<kind, pipelineInstance, factoryCalls, handles>>

\* pn rejects with e: the error is rethrown as it is
GenerateReject(c, e) ==
  /\ calls[c].pc = "generating"
  /\ calls[c].op = "generate"
  /\ calls' = [calls EXCEPT ![c] = Rejected([calls[c] EXCEPT !.gen = "rejected", !.thrown = e], e)]
  /\ UNCHANGED <<kind, pipelineInstance, factoryCalls, handles>>

\* ------------------------------------------- the ReadableStream controller
CanCloseOrEnqueue(st) == st.state = "readable" /\ ~st.closeRequested

\* controller.enqueue(chunk); the caller checks CanCloseOrEnqueue, else it throws
Enqueue(st, chunk) == [st EXCEPT !.queue = Append(@, chunk)]

CloseDroppingQueue(st) == [st EXCEPT !.state = "closed", !.queue = <<>>]
\* controller.close(): the stream closes once its queue has been read empty
Close(st) ==
  IF Len(st.queue) = 0 THEN [st EXCEPT !.state = "closed"]
  ELSE [st EXCEPT !.closeRequested = TRUE]

ErrorStreamAsClose(st, e) ==
  IF st.state # "readable" THEN st
  ELSE [st EXCEPT !.state = "closed", !.queue = <<>>]
\* controller.error(e): a no-op unless readable, else the queue is dropped
ErrorStream(st, e) ==
  IF st.state # "readable" THEN st
  ELSE [st EXCEPT !.state = "errored", !.queue = <<>>, !.storedError = e]

\* reader.read() taking the first chunk of a non-empty queue
Dequeue(st) ==
  IF Len(st.queue) = 1 /\ st.closeRequested
    THEN [st EXCEPT !.queue = <<>>, !.state = "closed"]
    ELSE [st EXCEPT !.queue = Tail(@)]

Terminal(st) == st.state \in {"closed", "errored"}

\* ---------------------------------------------- doStream, chat adapters
\* after ensurePipeline: the stream is constructed, its start callback runs
\* up to the await of pn(promptText, streamerOptions), and doStream returns
StreamInvoke(c) ==
  /\ calls[c].pc = "ensured"
  /\ calls[c].op = "stream"
  /\ kind[calls[c].inst] \in StreamKinds
  /\ calls' = IF ConvertThrows(calls[c].options.prompt)
       THEN [calls EXCEPT ![c] = Rejected(calls[c], "TypeError")]
       ELSE [calls EXCEPT ![c].pc = "resolved", ![c].gen = "running",
                 ![c].stream = [NoStream EXCEPT !.state = "readable"],
                 ![c].result = [rawCall |-> [rawPrompt |-> ConvertPromptToString(calls[c].options.prompt),
                                             rawSettings |-> GenerationOptions(calls[c].options)],
                                request |-> RequestBody(PipelinePrompt(kind[calls[c].inst], calls[c].options),
                                                        GenerationOptions(calls[c].options))],
                 ![c].args = Append(@, PipelineArgs(kind[calls[c].inst], calls[c].options, TRUE))]
  /\ UNCHANGED <<kind, pipelineInstance, factoryCalls, handles>>

\* the caller's await of doStream continues: it now holds the stream
HandOver(c) ==
  /\ calls[c].pc = "resolved"
  /\ calls[c].stream.state # "none"
  /\ ~calls[c].handed
  /\ calls' = [calls EXCEPT ![c].handed = TRUE]
  /\ UNCHANGED <<kind, pipelineInstance, factoryCalls, handles>>

TokenCallbackUnfiltered(st, token) ==
  IF CanCloseOrEnqueue(st) THEN Enqueue(st, [type |-> "text-delta", textDelta |-> token]) ELSE st
\* tokenCallback: if (token) controller.enqueue({type: 'text-delta', textDelta: token})
TokenCallback(st, token) ==
  IF token # <<>> /\ CanCloseOrEnqueue(st)
    THEN Enqueue(st, [type |-> "text-delta", textDelta |-> token])
    ELSE st

EmitTokenBroadcast(c, token) ==
  /\ calls[c].op = "stream"
  /\ calls[c].gen = "running"
  /\ Len(calls[c].emitted) < MaxEmit
  /\ calls' = [d \in CallId |->
       IF d = c
         THEN [calls[c] EXCEPT !.emitted = Append(@, token),
                 !.stream = IF kind[calls[c].inst] \in StreamKinds THEN TokenCallback(@, token) ELSE @,
                 !.delivered = IF kind[calls[c].inst] \in StreamKinds THEN @ ELSE Append(@, token)]
       ELSE IF calls[d].inst = calls[c].inst /\ calls[d].stream.state # "none"
         THEN [calls[d] EXCEPT !.stream = TokenCallback(@, token)]
       ELSE calls[d]]
  /\ UNCHANGED <<kind, pipelineInstance, factoryCalls, handles>>

OnTokenFiltered(delivered, token) == IF token # <<>> THEN Append(delivered, token) ELSE delivered
\* callback_function: options.onToken, the caller's callback gets the token as it is
OnToken(delivered, token) == Append(delivered, token)

\* the runtime calls the streamer's callback_function with one token
EmitToken(c, token) ==
  /\ calls[c].op = "stream"
  /\ calls[c].gen = "running"
  /\ Len(calls[c].emitted) < MaxEmit
  /\ calls' = [calls EXCEPT ![c].emitted = Append(@, token),
                 ![c].stream = IF kind[calls[c].inst] \in StreamKinds THEN TokenCallback(@, token) ELSE @,
                 ![c].delivered = IF kind[calls[c].inst] \in StreamKinds THEN @ ELSE OnToken(@, token)]
  /\ UNCHANGED <<kind, pipelineInstance, factoryCalls, handles>>

CountTerminal(before, after) == IF ~Terminal(before) /\ Terminal(after) THEN 1 ELSE 0

\* pn resolves inside start: controller.close()
StreamGenResolve(c) ==
  /\ calls[c].op = "stream"
  /\ calls[c].gen = "running"
  /\ kind[calls[c].inst] \in StreamKinds
  /\ LET st == calls[c].stream
         closed == IF CanCloseOrEnqueue(st) THEN Close(st) ELSE st
     IN calls' = [calls EXCEPT ![c].gen = "resolved", ![c].stream = closed,
                    ![c].terminals = @ + CountTerminal(st, closed)]
  /\ UNCHANGED <<kind, pipelineInstance, factoryCalls, handles>>

\* pn rejects inside start: catch (error) { controller.error(error) }
StreamGenReject(c, e) ==
  /\ calls[c].op = "stream"
  /\ calls[c].gen = "running"
  /\ kind[calls[c].inst] \in StreamKinds
  /\ LET st == calls[c].stream
         errored == ErrorStream(st, e)
     IN calls' = [calls EXCEPT ![c].gen = "rejected", ![c].thrown = e, ![c].stream = errored,
                    ![c].terminals = @ + CountTerminal(st, errored)]
  /\ UNCHANGED <<kind, pipelineInstance, factoryCalls, handles>>

\* the consumer's reader.read(): the next chunk, or the stored error
Read(c) ==
  /\ calls[c].handed
  /\ \/ /\ Len(calls[c].stream.queue) > 0
        /\ calls[c].stream.state = "readable"
        /\ LET st == calls[c].stream
               after == Dequeue(st)
           IN calls' = [calls EXCEPT ![c].received = Append(@, Head(st.queue)),
                          ![c].stream = after,
                          ![c].terminals = @ + CountTerminal(st, after)]
     \/ /\ calls[c].stream.state = "errored"
        /\ calls[c].readError = NoError
        /\ calls' = [calls EXCEPT ![c].readError = calls[c].stream.storedError]
  /\ UNCHANGED <<kind, pipelineInstance, factoryCalls, handles>>

\* ---------------------------------------- doStream, completion adapters
\* after ensurePipeline: pn(options.prompt, {...generationOptions, streamer}) is awaited
CompletionStreamInvoke(c) ==
  /\ calls[c].pc = "ensured"
  /\ calls[c].op = "stream"
  /\ kind[calls[c].inst] \notin StreamKinds
  /\ calls' = [calls EXCEPT ![c].pc = "generating", ![c].gen = "running",
                 ![c].args = Append(@, PipelineArgs(kind[calls[c].inst], calls[c].options, TRUE))]
  /\ UNCHANGED <<kind, pipelineInstance, factoryCalls, handles>>

\* pn resolves: doStream returns {rawResponse, request}, no stream
CompletionStreamResolve(c, out) ==
  /\ calls[c].pc = "generating"
  /\ calls[c].op = "stream"
  /\ calls' = [calls EXCEPT ![c].pc = "resolved", ![c].gen = "resolved",
                 ![c].result = [rawResponse |-> out,
                                request |-> RequestBody(calls[c].options.prompt,
                                                        GenerationOptions(calls[c].options))
                                              \o << <<"streamer", "{}">> >>]]
  /\ UNCHANGED <<kind, pipelineInstance, factoryCalls, handles>>

\* pn rejects: the error leaves doStream
CompletionStreamReject(c, e) ==
  /\ calls[c].pc = "generating"
  /\ calls[c].op = "stream"
  /\ calls' = [calls EXCEPT ![c] = Rejected([calls[c] EXCEPT !.gen = "rejected", !.thrown = e], e)]
  /\ UNCHANGED <<kind, pipelineInstance, factoryCalls, handles>>

\* -------------------------------------------------------------- doEmbed
Inputs == {"x", "y"}
TooManyValues == [k \in 1..(maxEmbeddingsPerCall + 1) |-> "x"]
RECURSIVE SeqsUpTo(_, _)
SeqsUpTo(S, n) ==
  IF n = 0 THEN {<<>>}
  ELSE LET shorter == SeqsUpTo(S, n - 1)
       IN shorter \cup {Append(q, x) : q \in {r \in shorter : Len(r) = n - 1}, x \in S}
EmbedValues == SeqsUpTo(Inputs, MaxValues) \cup {TooManyValues}

\* what the feature-extraction pipeline can resolve with
EmbedOutputs ==
  {[shape |-> "array", nested |-> TRUE, value |-> <<<<1, 2>>, <<3, 4>>>>],
   [shape |-> "data", nested |-> FALSE, value |-> <<5, 7>>],
   [shape |-> "array", nested |-> FALSE, value |-> <<>>],
   [shape |-> "array", nested |-> TRUE, value |-> << <<>>, <<>> >>],
   [shape |-> "array", nested |-> TRUE, value |-> << <<1, 2>>, <<3>> >>],
   [shape |-> "falsy"],
   [shape |-> "tensor"]}
Thrown == [shape |-> "throw"]

ExtractVectorsZero(out) ==
  IF out.shape \in {"data", "array", "toArray", "arrayLike", "field"}
    THEN IF Len(out.value) = 0 THEN << <<0>> >>
         ELSE IF out.nested THEN out.value
         ELSE <<out.value>>
    ELSE << <<0>> >>

\* extractVectorsFromOutput: the token vectors of a pipeline output, [[]] when
\* the output is empty or of no recognised shape
ExtractVectorsFromOutput(out) ==
  IF out.shape \in {"data", "array", "toArray", "arrayLike", "field"}
    THEN IF Len(out.value) = 0 THEN << <<>> >>
         ELSE IF out.nested THEN out.value
         ELSE <<out.value>>
    ELSE << <<>> >>

RECURSIVE SumAt(_, _, _)
\* avg[i] += vec[i] over the vectors of width dim
SumAt(vectors, i, dim) ==
  IF Len(vectors) = 0 THEN 0
  ELSE (IF Len(vectors[1]) = dim THEN vectors[1][i] ELSE 0) + SumAt(Tail(vectors), i, dim)

MeanVectorSum(tokenVectors) ==
  LET numTokens == Len(tokenVectors)
  IN IF numTokens = 0 \/ (numTokens = 1 /\ Len(tokenVectors[1]) = 0) THEN <<>>
     ELSE [i \in 1..Len(tokenVectors[1]) |->
             [num |-> SumAt(tokenVectors, i, Len(tokenVectors[1])), den |-> 1]]

\* the mean over the token axis; component i is the fraction num / den
MeanVector(tokenVectors) ==
  LET numTokens == Len(tokenVectors)
  IN IF numTokens = 0 \/ (numTokens = 1 /\ Len(tokenVectors[1]) = 0) THEN <<>>
     ELSE [i \in 1..Len(tokenVectors[1]) |->
             [num |-> SumAt(tokenVectors, i, Len(tokenVectors[1])), den |-> numTokens]]

EmbeddingOfSkipping(embeddings, outcome) ==
  IF outcome.shape = "throw" THEN embeddings
  ELSE Append(embeddings, MeanVector(ExtractVectorsFromOutput(outcome)))
\* one turn of the loop body: the embedding pushed for one settled extractor call
EmbeddingOf(embeddings, outcome) ==
  IF outcome.shape = "throw" THEN Append(embeddings, <<>>)
  ELSE Append(embeddings, MeanVector(ExtractVectorsFromOutput(outcome)))

TooManyNever(values) == FALSE
\* options.values.length > this.maxEmbeddingsPerCall
TooMany(values) == Len(values) > maxEmbeddingsPerCall

\* doEmbed up to its first await: the size check, then ensurePipeline; of the
\* options only values is read
DoEmbed(c, i, o) ==
  /\ FreeSlot(c)
  /\ kind[i] = "embedding"
  /\ LET call == [IdleCall EXCEPT !.inst = i, !.op = "embed", !.options = o]
     IN IF TooMany(o.values)
          THEN /\ calls' = [calls EXCEPT ![c] = Rejected(call, "TooManyEmbeddingValuesForCallError")]
               /\ UNCHANGED <<factoryCalls, handles>>
          ELSE EnsurePipeline(c, i, call)
  /\ UNCHANGED <<kind, pipelineInstance>>

StartEmbed(c, i, values) == DoEmbed(c, i, [values |-> values])

\* the loop of doEmbed from its current input: the extractor is called for
\* the next input, or the loop is over and the result is returned
EmbedContinue(call) ==
  IF Len(call.outputs) < Len(call.options.values)
    THEN [call EXCEPT !.pc = "embedding", !.gen = "running",
            !.args = Append(@, [input |-> call.options.values[Len(call.outputs) + 1]])]
    ELSE [call EXCEPT !.pc = "resolved", !.gen = "resolved",
            !.result = [embeddings |-> call.embeddings,
                        usage |-> [tokens |-> Len(call.options.values)]]]

AfterItemAborting(call, outcome) ==
  IF outcome.shape = "throw"
    THEN [call EXCEPT !.pc = "rejected", !.gen = "rejected", !.error = "ExtractorError",
                      !.outputs = Append(@, outcome)]
    ELSE EmbedContinue([call EXCEPT !.embeddings = EmbeddingOf(@, outcome),
                                    !.outputs = Append(@, outcome)])
\* the body of the loop after its await: try { push the mean } catch { push [] }
AfterItem(call, outcome) ==
  EmbedContinue([call EXCEPT !.embeddings = EmbeddingOf(@, outcome),
                             !.outputs = Append(@, outcome)])

EmbedInvoke(c) ==
  /\ calls[c].pc = "ensured"
  /\ calls[c].op = "embed"
  /\ calls' = [calls EXCEPT ![c] = EmbedContinue(calls[c])]
  /\ UNCHANGED <<kind, pipelineInstance, factoryCalls, handles>>

\* the extractor call of the current input settles: it resolved with an
\* output or it threw; the slot is filled and the loop goes on
EmbedSettle(c, outcome) ==
  /\ calls[c].pc = "embedding"
  /\ calls' = [calls EXCEPT ![c] = AfterItem(calls[c], outcome)]
  /\ UNCHANGED <<kind, pipelineInstance, factoryCalls, handles>>

\* ------------------------------------------------------- specifications
\* the caller lets go of a settled call
Forget(c) ==
  /\ calls[c].pc \in {"resolved", "rejected"}
  /\ calls[c].gen # "running"
  /\ calls' = [calls EXCEPT ![c] = IdleCall]
  /\ UNCHANGED <<kind, pipelineInstance, factoryCalls, handles>>

Tokens == {<<>>, <<"a">>, <<"b">>}

\* the inputs and the outcomes drawn when calls run side by side
FewOptions == {[prompt |-> PromptHello]}
FewTokens == {<<"a">>}
FewGenOutputs == {[shape |-> "flat", generated_text |-> <<"o", "k", "a", "y", "!">>, finish_reason |-> "stop"]}
FewValues == {<<"x">>}
FewEmbedOutputs == {[shape |-> "falsy"]}
FewLoadErrors == {"LoadError"}
FewGenErrors == {"GenerationError"}

\* any number of calls in flight on any adapters
Next ==
  \/ \E i \in Inst, k \in Kinds : NewAdapter(i, k)
  \/ \E c \in CallId, i \in Inst, op \in {"generate", "stream"}, o \in FewOptions : StartLM(c, i, op, o)
  \/ \E c \in CallId, i \in Inst, v \in FewValues : StartEmbed(c, i, v)
  \/ \E c \in CallId : LoadResolve(c)
  \/ \E c \in CallId, e \in FewLoadErrors : LoadReject(c, e)
  \/ \E c \in CallId : GenerateInvoke(c)
  \/ \E c \in CallId, out \in FewGenOutputs : GenerateResolve(c, out)
  \/ \E c \in CallId, e \in FewGenErrors : GenerateReject(c, e)
  \/ \E c \in CallId : StreamInvoke(c)
  \/ \E c \in CallId : HandOver(c)
  \/ \E c \in CallId, t \in FewTokens : EmitToken(c, t)
  \/ \E c \in CallId : StreamGenResolve(c)
  \/ \E c \in CallId, e \in FewGenErrors : StreamGenReject(c, e)
  \/ \E c \in CallId : Read(c)
  \/ \E c \in CallId : CompletionStreamInvoke(c)
  \/ \E c \in CallId, out \in FewGenOutputs : CompletionStreamResolve(c, out)
  \/ \E c \in CallId, e \in FewGenErrors : CompletionStreamReject(c, e)
  \/ \E c \in CallId : EmbedInvoke(c)
  \/ \E c \in CallId, out \in FewEmbedOutputs \cup {Thrown} : EmbedSettle(c, out)

Spec == Init /\ [][Next]_vars

\* no call is in flight
Quiet == \A c \in CallId : calls[c].pc = "idle"

CallLM(c, op, o) == Quiet /\ StartLM(c, 1, op, o)
CallEmbed(c, v) == Quiet /\ StartEmbed(c, 1, v)

\* one adapter, one call after the other, every input and every outcome
NextCall ==
  \/ \E k \in Kinds : NewAdapter(1, k)
  \/ \E c \in CallId, op \in {"generate", "stream"}, o \in LMOptions : CallLM(c, op, o)
  \/ \E c \in CallId, v \in EmbedValues : CallEmbed(c, v)
  \/ \E c \in CallId : LoadResolve(c)
  \/ \E c \in CallId, e \in LoadErrors : LoadReject(c, e)
  \/ \E c \in CallId : GenerateInvoke(c)
  \/ \E c \in CallId, out \in GenOutputs : GenerateResolve(c, out)
  \/ \E c \in CallId, e \in GenErrors : GenerateReject(c, e)
  \/ \E c \in CallId : StreamInvoke(c)
  \/ \E c \in CallId : HandOver(c)
  \/ \E c \in CallId, t \in Tokens : EmitToken(c, t)
  \/ \E c \in CallId : StreamGenResolve(c)
  \/ \E c \in CallId, e \in GenErrors : StreamGenReject(c, e)
  \/ \E c \in CallId : Read(c)
  \/ \E c \in CallId : CompletionStreamInvoke(c)
  \/ \E c \in CallId, out \in GenOutputs : CompletionStreamResolve(c, out)
  \/ \E c \in CallId, e \in GenErrors : CompletionStreamReject(c, e)
  \/ \E c \in CallId : EmbedInvoke(c)
  \/ \E c \in CallId, out \in EmbedOutputs \cup {Thrown} : EmbedSettle(c, out)
  \/ \E c \in CallId : Forget(c)

SpecCall == Init /\ [][NextCall]_vars

\* prompt normalisation: one language-model adapter, one call at a time, the
\* options carry nothing but a prompt drawn from every shape a caller can pass
PromptStrings == {<<>>, <<"H", "i">>, <<"a", "\n", "b">>}
PromptContents ==
  { [type |-> "string", text |-> <<"H", "i">>],
    [type |-> "string", text |-> <<"a", "\n", "b">>],
    [type |-> "parts", parts |-> << [text |-> <<"y">>], [image |-> <<"z">>], [text |-> <<"o">>] >>],
    [type |-> "parts", parts |-> << >>],
    [type |-> "parts", parts |-> << [text |-> <<"y">>], [primitive |-> <<"z">>] >>],
    [type |-> "other"] }
Messages ==
  [role : {<<"u">>}, content : PromptContents]
    \cup {[role |-> <<"a">>, content |-> [type |-> "string", text |-> <<"H", "i">>]]}
ManyPrompts ==
  [type : {"string"}, text : PromptStrings]
    \cup [type : {"messages"}, messages : SeqsUpTo(Messages, MaxMessages)]

CallPrompt(op, p) == Quiet /\ StartLM(1, 1, op, [prompt |-> p])

NextPrompt ==
  \/ \E k \in LMKinds : NewAdapter(1, k)
  \/ \E op \in {"generate", "stream"}, p \in ManyPrompts : CallPrompt(op, p)
  \/ \E c \in CallId : LoadResolve(c)
  \/ \E c \in CallId : GenerateInvoke(c)
  \/ \E c \in CallId, out \in GenOutputs : GenerateResolve(c, out)
  \/ \E c \in CallId : StreamInvoke(c)
  \/ \E c \in CallId : StreamGenResolve(c)
  \/ \E c \in CallId : CompletionStreamInvoke(c)
  \/ \E c \in CallId, out \in FewGenOutputs : CompletionStreamResolve(c, out)
  \/ \E c \in CallId : Forget(c)

SpecPrompt == Init /\ [][NextPrompt]_vars

\* several adapters made by the provider factory, used one call at a time
CallOn(i, op, o) == Quiet /\ StartLM(1, i, op, o)
CallEmbedOn(i, v) == Quiet /\ StartEmbed(1, i, v)

NextInst ==
  \/ \E i \in Inst, k \in Kinds : NewAdapter(i, k)
  \/ \E i \in Inst, op \in {"generate", "stream"}, o \in FewOptions : CallOn(i, op, o)
  \/ \E i \in Inst, v \in FewValues : CallEmbedOn(i, v)
  \/ \E c \in CallId : LoadResolve(c)
  \/ \E c \in CallId, e \in FewLoadErrors : LoadReject(c, e)
  \/ \E c \in CallId : GenerateInvoke(c)
  \/ \E c \in CallId, out \in FewGenOutputs : GenerateResolve(c, out)
  \/ \E c \in CallId : StreamInvoke(c)
  \/ \E c \in CallId : StreamGenResolve(c)
  \/ \E c \in CallId : CompletionStreamInvoke(c)
  \/ \E c \in CallId, out \in FewGenOutputs : CompletionStreamResolve(c, out)
  \/ \E c \in CallId : EmbedInvoke(c)
  \/ \E c \in CallId, out \in FewEmbedOutputs : EmbedSettle(c, out)
  \/ \E c \in CallId : Forget(c)

SpecInst == Init /\ [][NextInst]_vars

\* stream calls running side by side on one chat adapter
StartStream(c, o) == StartLM(c, 1, "stream", o)

NextStreams ==
  \/ \E k \in StreamKinds : NewAdapter(1, k)
  \/ \E c \in CallId, o \in FewOptions : StartStream(c, o)
  \/ \E c \in CallId : LoadResolve(c)
  \/ \E c \in CallId : StreamInvoke(c)
  \/ \E c \in CallId : HandOver(c)
  \/ \E c \in CallId, t \in FewTokens : EmitToken(c, t)
  \/ \E c \in CallId : StreamGenResolve(c)
  \/ \E c \in CallId, e \in FewGenErrors : StreamGenReject(c, e)
  \/ \E c \in CallId : Read(c)

SpecStreams == Init /\ [][NextStreams]_vars

\* calls whose options carry an AbortSignal: one adapter, one call at a time;
\* the signal is aborted before the call or its owner aborts it during the call
AbortSignals == {[aborted |-> FALSE], [aborted |-> TRUE]}
WithAbortSignal(o, signal) ==
  [x \in DOMAIN o \cup {"abortSignal"} |-> IF x = "abortSignal" THEN signal ELSE o[x]]
AbortableOptions == FewOptions \cup {WithAbortSignal(o, s) : o \in FewOptions, s \in AbortSignals}
AbortableValues ==
  {[values |-> v] : v \in FewValues}
    \cup {WithAbortSignal([values |-> v], s) : v \in FewValues, s \in AbortSignals}

CallAbortable(op, o) == Quiet /\ StartLM(1, 1, op, o)
CallEmbedAbortable(o) == Quiet /\ DoEmbed(1, 1, o)

\* AbortController.abort() by the owner of the signal while the call is in
\* flight or its stream is being read: signal.aborted turns true, and no
\* adapter has registered a listener on it
Abort(c) ==
  /\ calls[c].pc # "idle"
  /\ "abortSignal" \in DOMAIN calls[c].options
  /\ ~calls[c].options.abortSignal.aborted
  /\ calls' = [calls EXCEPT ![c].options.abortSignal.aborted = TRUE]
  /\ UNCHANGED <<kind, pipelineInstance, factoryCalls, handles>>

NextAbort ==
  \/ \E k \in Kinds : NewAdapter(1, k)
  \/ \E op \in {"generate", "stream"}, o \in AbortableOptions : CallAbortable(op, o)
  \/ \E o \in AbortableValues : CallEmbedAbortable(o)
  \/ \E c \in CallId : Abort(c)
  \/ \E c \in CallId : LoadResolve(c)
  \/ \E c \in CallId, e \in FewLoadErrors : LoadReject(c, e)
  \/ \E c \in CallId : GenerateInvoke(c)
  \/ \E c \in CallId, out \in FewGenOutputs : GenerateResolve(c, out)
  \/ \E c \in CallId, e \in FewGenErrors : GenerateReject(c, e)
  \/ \E c \in CallId : StreamInvoke(c)
  \/ \E c \in CallId : HandOver(c)
  \/ \E c \in CallId, t \in FewTokens : EmitToken(c, t)
  \/ \E c \in CallId : StreamGenResolve(c)
  \/ \E c \in CallId, e \in FewGenErrors : StreamGenReject(c, e)
  \/ \E c \in CallId : Read(c)
  \/ \E c \in CallId : CompletionStreamInvoke(c)
  \/ \E c \in CallId, out \in FewGenOutputs : CompletionStreamResolve(c, out)
  \/ \E c \in CallId, e \in FewGenErrors : CompletionStreamReject(c, e)
  \/ \E c \in CallId : EmbedInvoke(c)
  \/ \E c \in CallId, out \in FewEmbedOutputs \cup {Thrown} : EmbedSettle(c, out)
  \/ \E c \in CallId : Forget(c)

SpecAbort == Init /\ [][NextAbort]_vars

\* ---------------------------------------------------------------- claims
EmbedCalls == {c \in CallId : calls[c].op = "embed"}
StreamCalls == {c \in CallId : calls[c].op = "stream"}
GenerateCalls == {c \in CallId : calls[c].op = "generate"}

\* C1: calls started side by side on one adapter instance share one load: an
\* instance never has two invocations of the pipeline factory in flight.
C1_SingleFlight ==
  \A i \in Inst : Cardinality({c \in CallId : calls[c].inst = i /\ calls[c].pc = "loading"}) <= 1

\* C2: in a series of calls made one after the other, once an instance holds
\* a loaded pipeline no step invokes the factory for it again or stores
\* another handle, and a call that has its pipeline has the stored one.
C2_LoadedOnce ==
  [][\A i \in Inst : pipelineInstance[i] # NoPipe =>
        /\ factoryCalls'[i] = factoryCalls[i]
        /\ pipelineInstance'[i] = pipelineInstance[i]
        /\ \A c \in CallId : calls'[c].inst = i /\ calls'[c].pc # "rejected" =>
              calls'[c].pc = "idle" \/ calls'[c].pn = pipelineInstance[i]]_vars

\* a later call got the stored handle without a load of its own, the factory
\* having been invoked once
C2_Witness ==
  \E c \in CallId : /\ calls[c].pc = "generating"
                    /\ calls[c].loads = 0
                    /\ calls[c].pn = pipelineInstance[calls[c].inst]
                    /\ factoryCalls[calls[c].inst] = 1

\* the embedding the loop owes for one settled extractor call
ExpectedEmbedding(outcome) ==
  IF outcome = Thrown THEN <<>> ELSE MeanVector(ExtractVectorsFromOutput(outcome))

\* C3: an embed call within the limit returns one embedding per value, in the
\* order of the values: entry k is the mean of the token vectors the
\* extractor gave for values[k], or the empty vector.
C3_OnePerValue ==
  \A c \in EmbedCalls :
    LET call == calls[c]
        values == call.options.values
    IN Len(values) <= maxEmbeddingsPerCall =>
         /\ Len(call.embeddings) = Len(call.outputs)
         /\ Len(call.embeddings) <= Len(values)
         /\ call.pc = "resolved" =>
              /\ Len(call.result.embeddings) = Len(values)
              /\ \A k \in 1..Len(values) :
                   /\ call.args[k].input = values[k]
                   /\ call.result.embeddings[k] = ExpectedEmbedding(call.outputs[k])

\* a batch of two was embedded, the first input failing, the second not
C3_Witness ==
  \E c \in EmbedCalls :
    /\ calls[c].pc = "resolved"
    /\ calls[c].options.values = <<"x", "y">>
    /\ calls[c].outputs[1] = Thrown
    /\ calls[c].result.embeddings = << <<>>, <<[num |-> 4, den |-> 2], [num |-> 6, den |-> 2]>> >>

\* C4: an embed call with more values than maxEmbeddingsPerCall is rejected
\* with the too-many-values error and does nothing else: no factory call, no
\* pipeline call, no handle awaited or taken, no embedding.
C4_TooManyRejected ==
  \A c \in EmbedCalls :
    Len(calls[c].options.values) > maxEmbeddingsPerCall =>
      /\ calls[c].pc = "rejected"
      /\ calls[c].error = "TooManyEmbeddingValuesForCallError"
      /\ calls[c].loads = 0 /\ calls[c].loading = NoPipe /\ calls[c].pn = NoPipe
      /\ calls[c].args = <<>>
      /\ calls[c].embeddings = <<>> /\ calls[c].result = NoOptions

\* an oversized batch was rejected on an instance that had no pipeline yet
C4_Witness ==
  \E c \in EmbedCalls :
    /\ Len(calls[c].options.values) = maxEmbeddingsPerCall + 1
    /\ calls[c].pc = "rejected"
    /\ pipelineInstance[calls[c].inst] = NoPipe
    /\ factoryCalls[calls[c].inst] = 0

\* C5: an extractor call that throws fills its slot with the empty vector and
\* does not end the batch: the call is never rejected by it, the next input
\* is passed to the extractor, and the call resolves with every input passed.
C5_FailureIsolated ==
  \A c \in EmbedCalls :
    LET call == calls[c]
        values == call.options.values
    IN /\ call.pc = "rejected" =>
            call.error \in LoadErrors \cup {"TooManyEmbeddingValuesForCallError"}
       /\ \A k \in 1..Len(call.outputs) :
            call.outputs[k] = Thrown =>
              /\ k <= Len(call.embeddings) /\ call.embeddings[k] = <<>>
              /\ k < Len(values) => Len(call.args) > k /\ call.args[k + 1].input = values[k + 1]
              /\ k = Len(values) => call.pc = "resolved"
       /\ call.pc = "resolved" => Len(call.args) = Len(values)

\* the first input of a batch of two threw and the call resolved all the same
C5_Witness ==
  \E c \in EmbedCalls :
    /\ calls[c].pc = "resolved"
    /\ Len(calls[c].options.values) = 2
    /\ calls[c].outputs[1] = Thrown
    /\ calls[c].outputs[2] # Thrown
    /\ Len(calls[c].args) = 2

\* the stream calls of the chat adapters that have constructed their stream
ChatStreams == {c \in StreamCalls : calls[c].stream.state # "none"}

RECURSIVE NonEmpty(_)
NonEmpty(tokens) ==
  IF Len(tokens) = 0 THEN <<>>
  ELSE IF Head(tokens) = <<>> THEN NonEmpty(Tail(tokens))
  ELSE <<Head(tokens)>> \o NonEmpty(Tail(tokens))

\* the elements a stream has carried so far: those read, then those buffered
Carried(call) == call.received \o call.stream.queue
TextDeltas(tokens) == [k \in 1..Len(tokens) |-> [type |-> "text-delta", textDelta |-> tokens[k]]]
IsPrefix(p, q) == Len(p) <= Len(q) /\ \A k \in 1..Len(p) : p[k] = q[k]

\* C6 as claimed: every token the runtime emits is one text-delta element of
\* the stream, in emission order, whatever the reads; then the stream closes.
C6_EveryTokenCarried ==
  \A c \in ChatStreams :
    /\ Carried(calls[c]) = TextDeltas(calls[c].emitted)
    /\ calls[c].gen # "running" /\ Len(calls[c].stream.queue) = 0 => calls[c].stream.state = "closed"

\* C6, amended: every non-empty token the runtime emits is one text-delta
\* element of the stream, in emission order, whatever the reads, until the
\* generation rejects; once it resolved the stream closes when its buffer is
\* read empty.  After a rejection the elements read are a prefix of them.
C6_NonEmptyTokensCarried ==
  \A c \in ChatStreams :
    LET call == calls[c]
        expected == TextDeltas(NonEmpty(call.emitted))
    IN /\ call.stream.state # "errored" => Carried(call) = expected
       /\ call.stream.state = "errored" => IsPrefix(Carried(call), expected)
       /\ call.gen = "resolved" =>
            IF Len(call.stream.queue) = 0 THEN call.stream.state = "closed"
            ELSE call.stream.closeRequested

\* two tokens were emitted before the consumer read, both were then read in
\* order and the stream is closed
C6_Witness ==
  \E c \in ChatStreams :
    /\ calls[c].emitted = << <<"a">>, <<"b">> >>
    /\ calls[c].received = TextDeltas(<< <<"a">>, <<"b">> >>)
    /\ calls[c].stream.state = "closed"

\* C7: a stream ends once, and after its generation call settled: closed if
\* the call resolved (and the buffer was read), errored if it rejected; an
\* ended stream never changes again, so nothing is enqueued on it.
C7_TerminalOnce ==
  /\ [](\A c \in ChatStreams :
          LET call == calls[c]
          IN /\ call.terminals = (IF Terminal(call.stream) THEN 1 ELSE 0)
             /\ call.stream.state = "closed" => call.gen = "resolved"
             /\ call.stream.state = "errored" => call.gen = "rejected"
             /\ call.gen = "rejected" => call.stream.state = "errored"
             /\ call.gen = "resolved" /\ Len(call.stream.queue) = 0 => call.stream.state = "closed"
             /\ Terminal(call.stream) => Len(call.stream.queue) = 0)
  /\ [][\A c \in ChatStreams :
          Terminal(calls[c].stream) /\ calls'[c].pc # "idle" =>
            /\ calls'[c].stream = calls[c].stream
            /\ calls'[c].terminals = calls[c].terminals]_vars

\* the generation resolved with a token still buffered, and the stream closed
\* when the consumer had read it
C7_Witness ==
  \E c \in ChatStreams :
    /\ calls[c].stream.state = "closed"
    /\ calls[c].stream.closeRequested
    /\ Len(calls[c].received) > 0
    /\ calls[c].terminals = 1

\* C8: a generation that fails is reported on the stream, which ends errored
\* with that error and fails the consumer's read with it; a stream call is
\* rejected only by a failed pipeline load.
C8_FailureOnStream ==
  \A c \in StreamCalls :
    /\ calls[c].pc = "rejected" => calls[c].gen = "none" /\ calls[c].error \in LoadErrors
    /\ calls[c].gen = "rejected" =>
         /\ calls[c].stream.state = "errored"
         /\ calls[c].stream.storedError = calls[c].thrown
         /\ calls[c].readError \in {NoError, calls[c].thrown}

\* C9: a generate call whose pipeline load or pipeline call failed rejects
\* with the very error that was thrown and has no result; no generate call
\* invokes the factory or the pipeline more than once.
C9_FailureSurfaced ==
  \A c \in GenerateCalls :
    /\ calls[c].loads <= 1
    /\ Len(calls[c].args) <= 1
    /\ calls[c].thrown # NoError =>
         /\ calls[c].pc = "rejected"
         /\ calls[c].error = calls[c].thrown
         /\ calls[c].result = NoOptions

\* a generate call loaded its pipeline, invoked it once and was rejected with
\* the error of the pipeline
C9_Witness ==
  \E c \in GenerateCalls :
    /\ calls[c].pc = "rejected"
    /\ calls[c].loads = 1
    /\ Len(calls[c].args) = 1
    /\ calls[c].thrown = "Aborted"

\* C10: the do_sample handed to the pipeline by every generate and stream
\* call is true exactly when the temperature option is set and above 0.
C10_DoSample ==
  \A c \in GenerateCalls \cup StreamCalls :
    \A k \in 1..Len(calls[c].args) :
      calls[c].args[k].options.do_sample =
        ("temperature" \in DOMAIN calls[c].options /\ calls[c].options.temperature > 0)

\* the pipeline was invoked with do_sample false for temperature 0
C10_Witness ==
  \E c \in GenerateCalls \cup StreamCalls :
    /\ Len(calls[c].args) = 1
    /\ "temperature" \in DOMAIN calls[c].options
    /\ calls[c].options.temperature = 0
    /\ ~calls[c].args[1].options.do_sample

\* the settings a call's options stand for, defaults filled in
SettingsOf(o) ==
  LET maxTokens == IF "maxTokens" \in DOMAIN o THEN o.maxTokens ELSE DefaultMaxTokens
      temperature == IF "temperature" \in DOMAIN o THEN o.temperature ELSE DefaultTemperature
  IN [max_new_tokens |-> maxTokens, do_sample |-> temperature > 0, temperature |-> temperature]

\* C11: every generate call hands the pipeline exactly max_new_tokens (maxTokens,
\* 512 when unset), do_sample and temperature (0 when unset), and its result
\* reports the same values: rawSettings equals them and request.body lists the
\* prompt handed to the pipeline, max_new_tokens, do_sample and temperature in
\* that order.
C11_SettingsReported ==
  \A c \in GenerateCalls :
    LET want == SettingsOf(calls[c].options)
    IN /\ \A k \in 1..Len(calls[c].args) : calls[c].args[k].options = want
       /\ calls[c].pc = "resolved" =>
            /\ Len(calls[c].args) = 1
            /\ "rawCall" \in DOMAIN calls[c].result
            /\ calls[c].result.rawCall.rawSettings = want
            /\ calls[c].result.request =
                 << <<"prompt", calls[c].args[1].prompt>>, <<"max_new_tokens", want.max_new_tokens>>,
                    <<"do_sample", want.do_sample>>, <<"temperature", want.temperature>> >>

\* ---- prompt normalisation, read off the first argument of the pipeline call
LMCalls == GenerateCalls \cup StreamCalls
\* the calls of the adapters that flatten, once the pipeline has been invoked
Normalized ==
  {c \in LMCalls : kind[calls[c].inst] \in StreamKinds /\ Len(calls[c].args) > 0}
MessageCalls == {c \in Normalized : calls[c].options.prompt.type = "messages"}
PassedText(c) == calls[c].args[1].prompt.text
\* the call threw before it reached the pipeline (no load fails in SpecPrompt)
ThrewBeforePipeline(c) == calls[c].pc = "rejected" /\ calls[c].args = <<>>

HasNewline(text) == \E i \in 1..Len(text) : text[i] = "\n"
PlainContent(content) ==
  CASE content.type = "string" -> ~HasNewline(content.text)
    [] content.type = "parts" ->
         \A j \in 1..Len(content.parts) :
           "text" \in DOMAIN content.parts[j] => ~HasNewline(content.parts[j].text)
    [] OTHER -> TRUE
\* no message text holds a newline of its own
PlainMessages(prompt) ==
  \A k \in 1..Len(prompt.messages) : PlainContent(prompt.messages[k].content)

RECURSIVE SplitLines(_)
\* the lines of a text: what lies between its newline characters
SplitLines(text) ==
  IF ~HasNewline(text) THEN <<text>>
  ELSE LET i == CHOOSE i \in 1..Len(text) :
                  text[i] = "\n" /\ \A j \in 1..(i - 1) : text[j] # "\n"
       IN <<SubSeq(text, 1, i - 1)>> \o SplitLines(SubSeq(text, i + 1, Len(text)))

RECURSIVE JoinedBy(_, _)
\* the texts one after the other, sep between neighbours
JoinedBy(texts, sep) ==
  IF Len(texts) = 0 THEN <<>>
  ELSE IF Len(texts) = 1 THEN texts[1]
  ELSE JoinedBy(SubSeq(texts, 1, Len(texts) - 1), sep) \o sep \o texts[Len(texts)]

\* C12: a prompt that is a plain string is normalised to itself, and generate
\* and stream pass exactly that string to the pipeline.
C12_StringUnchanged ==
  \A c \in LMCalls :
    calls[c].options.prompt.type = "string" =>
      /\ ~ThrewBeforePipeline(c)
      /\ \A k \in 1..Len(calls[c].args) :
           calls[c].args[k].prompt = [type |-> "string", text |-> calls[c].options.prompt.text]
      /\ calls[c].pc = "resolved" /\ "rawCall" \in DOMAIN calls[c].result =>
           calls[c].result.rawCall.rawPrompt = calls[c].options.prompt.text

\* a stream call of a chat adapter passed a two-line string prompt as it was
C12_Witness ==
  \E c \in StreamCalls \cap Normalized :
    /\ calls[c].options.prompt = [type |-> "string", text |-> <<"a", "\n", "b">>]
    /\ PassedText(c) = <<"a", "\n", "b">>
    /\ calls[c].pc = "resolved"
    /\ calls[c].result.rawCall.rawPrompt = <<"a", "\n", "b">>

\* C13 as stated: for every message sequence the normalised prompt has exactly
\* one line per message: the number of lines equals the number of messages.
C13_OneLinePerMessage ==
  \A c \in MessageCalls :
    Len(SplitLines(PassedText(c))) = Len(calls[c].options.prompt.messages)

\* C13: for every message sequence the normalised prompt is the rendered
\* messages in their original order with one newline between neighbours (the
\* empty text for no message); it has one line per message, in order, whenever
\* there is a message and no message text holds a newline of its own.
C13_JoinedInOrder ==
  \A c \in MessageCalls :
    LET messages == calls[c].options.prompt.messages
        lines == [k \in 1..Len(messages) |-> RenderMessage(messages[k])]
    IN /\ PassedText(c) = JoinedBy(lines, <<"\n">>)
       /\ Len(messages) = 0 => PassedText(c) = <<>>
       /\ Len(messages) > 0 /\ PlainMessages(calls[c].options.prompt) =>
            SplitLines(PassedText(c)) = lines

\* two messages were flattened into two lines, the second one empty
C13_Witness ==
  \E c \in MessageCalls :
    /\ Len(calls[c].options.prompt.messages) = 2
    /\ calls[c].options.prompt.messages[2].content.type = "other"
    /\ SplitLines(PassedText(c)) = << <<"u", ":", " ", "H", "i">>, <<>> >>

C15_ContentsAlone ==
  \A c \in GenerateCalls :
    LET prompt == calls[c].options.prompt
    IN /\ prompt.type = "messages"
       /\ \A k \in 1..Len(prompt.messages) : prompt.messages[k].content.type = "string"
       => \A a \in 1..Len(calls[c].args) :
            calls[c].args[a].prompt =
              [type |-> "string",
               text |-> JoinedBy([k \in 1..Len(prompt.messages) |-> prompt.messages[k].content.text],
                                 <<"\n">>)]

\* every entry of every content sequence is a part, that is an object
PartsOnly(prompt) ==
  \A k \in 1..Len(prompt.messages) :
    prompt.messages[k].content.type = "parts" =>
      \A j \in 1..Len(prompt.messages[k].content.parts) :
        DOMAIN prompt.messages[k].content.parts[j] \subseteq {"text", "image"}
\* the text values of the parts that carry a text field, in order
TextsOf(parts) ==
  LET HasText(part) == "text" \in DOMAIN part
      kept == SelectSeq(parts, HasText)
  IN [j \in 1..Len(kept) |-> kept[j].text]

\* C16: a message whose content is a sequence of parts is rendered as the text
\* values of the parts that carry a text field, in order, with a single space
\* between them and no role prefix; parts without a text field are dropped
\* and raise no error.
C16_PartsJoined ==
  \A c \in LMCalls :
    LET prompt == calls[c].options.prompt
    IN /\ kind[calls[c].inst] \in StreamKinds
       /\ prompt.type = "messages"
       /\ PartsOnly(prompt)
       => /\ ~ThrewBeforePipeline(c)
          /\ c \in MessageCalls /\ PlainMessages(prompt) =>
               \A k \in 1..Len(prompt.messages) :
                 prompt.messages[k].content.type = "parts" =>
                   /\ k <= Len(SplitLines(PassedText(c)))
                   /\ SplitLines(PassedText(c))[k] =
                        JoinedBy(TextsOf(prompt.messages[k].content.parts), <<" ">>)

\* a message of a text part, an image part and a text part was passed as "y o"
C16_Witness ==
  \E c \in MessageCalls :
    /\ Len(calls[c].options.prompt.messages) = 1
    /\ calls[c].options.prompt.messages[1].content =
         [type |-> "parts", parts |-> << [text |-> <<"y">>], [image |-> <<"z">>], [text |-> <<"o">>] >>]
    /\ PassedText(c) = <<"y", " ", "o">>

\* C17: normalisation never throws and maps every prompt to a string; a
\* message whose content is neither a string nor a sequence of parts gives an
\* empty line.
C17_TotalNormalization ==
  \A c \in LMCalls :
    kind[calls[c].inst] \in StreamKinds =>
      /\ ~ThrewBeforePipeline(c)
      /\ \A a \in 1..Len(calls[c].args) : calls[c].args[a].prompt.type = "string"
      /\ c \in MessageCalls /\ PlainMessages(calls[c].options.prompt) =>
           \A k \in 1..Len(calls[c].options.prompt.messages) :
             LET content == calls[c].options.prompt.messages[k].content
             IN content.type = "other"
                  \/ (content.type = "parts" /\ ~PartsOnly(calls[c].options.prompt))
                => /\ k <= Len(SplitLines(PassedText(c)))
                   /\ SplitLines(PassedText(c))[k] = <<>>

\* C18: every language-model adapter, chat or completion, plain or
\* OpenAI-compatible, hands the pipeline the flattened string as its first
\* argument, for a prompt that is a message sequence too.
C18_AlwaysFlattened ==
  \A c \in LMCalls :
    \A a \in 1..Len(calls[c].args) :
      /\ calls[c].args[a].prompt.type = "string"
      /\ calls[c].args[a].prompt.text = ConvertPromptToString(calls[c].options.prompt)

\* ---- embeddings
\* the embeddings a call has so far: its result once it has resolved
EmbeddingsOf(c) ==
  IF calls[c].pc = "resolved" THEN calls[c].result.embeddings ELSE calls[c].embeddings
Settled(c) == 1..Len(EmbeddingsOf(c))

RECURSIVE ColumnTotal(_, _)
\* the sum of the i-th components of the vectors
ColumnTotal(vectors, i) ==
  IF Len(vectors) = 0 THEN 0
  ELSE ColumnTotal(SubSeq(vectors, 1, Len(vectors) - 1), i) + vectors[Len(vectors)][i]

\* C19: when the token vectors of an input all have the same width d, its
\* embedding has width d and its i-th component is the sum of the vectors'
\* i-th components divided by the number of vectors.
C19_ComponentwiseMean ==
  \A c \in EmbedCalls :
    \A k \in Settled(c) :
      k <= Len(calls[c].outputs) /\ calls[c].outputs[k] # Thrown =>
        LET vectors == ExtractVectorsFromOutput(calls[c].outputs[k])
            embedding == EmbeddingsOf(c)[k]
        IN (\A v \in 1..Len(vectors) : Len(vectors[v]) = Len(vectors[1])) =>
             /\ Len(embedding) = Len(vectors[1])
             /\ \A i \in 1..Len(embedding) :
                  /\ embedding[i].den > 0
                  /\ embedding[i].num * Len(vectors) = ColumnTotal(vectors, i) * embedding[i].den

\* the token vectors [1,2] and [3,4] gave the embedding [4/2, 6/2], that is [2,3]
C19_Witness ==
  \E c \in EmbedCalls :
    /\ calls[c].pc = "resolved"
    /\ Len(calls[c].outputs) = 1
    /\ calls[c].outputs[1] = [shape |-> "array", nested |-> TRUE, value |-> <<<<1, 2>>, <<3, 4>>>>]
    /\ Len(calls[c].result.embeddings[1]) = 2
    /\ \A i \in 1..2 :
         calls[c].result.embeddings[1][i].num = (i + 1) * calls[c].result.embeddings[1][i].den

\* the output holds no token vector, only vectors of width zero, or has no
\* shape extractVectorsFromOutput knows
Degenerate(out) ==
  \/ out.shape \in {"falsy", "tensor"}
  \/ /\ out.shape \in {"array", "data"}
     /\ \/ out.value = <<>>
        \/ out.nested /\ \A j \in 1..Len(out.value) : out.value[j] = <<>>

\* C20: an input whose output is degenerate gets the empty vector in its slot,
\* and every other input of the batch gets the embedding it gets in a batch of
\* its own.
C20_DegenerateIsolated ==
  \A c \in EmbedCalls :
    /\ \A k \in Settled(c) :
         k <= Len(calls[c].outputs) /\ Degenerate(calls[c].outputs[k]) => EmbeddingsOf(c)[k] = <<>>
    /\ (\E k \in Settled(c) : k <= Len(calls[c].outputs) /\ Degenerate(calls[c].outputs[k])) =>
         \A j \in Settled(c) :
           j <= Len(calls[c].outputs) =>
             <<EmbeddingsOf(c)[j]>> = EmbeddingOf(<<>>, calls[c].outputs[j])

\* a batch of two: the first output of no known shape, the second embedded
\* as it is alone
C20_Witness ==
  \E c \in EmbedCalls :
    /\ calls[c].pc = "resolved"
    /\ Len(calls[c].outputs) = 2
    /\ calls[c].outputs[1] = [shape |-> "tensor"]
    /\ calls[c].outputs[2] = [shape |-> "data", nested |-> FALSE, value |-> <<5, 7>>]
    /\ calls[c].result.embeddings = << <<>>, <<[num |-> 5, den |-> 1], [num |-> 7, den |-> 1]>> >>

\* ---- results of generate
Resolved(c) == calls[c].pc = "resolved"
OpenAICompatible == {"chatOpenAICompatible", "completionOpenAICompatible"}
\* the finish reason the first pipeline output reports
ReportedFinishReason(out) ==
  IF "finish_reason" \in DOMAIN out THEN out.finish_reason ELSE "undefined"

\* C21: a generate result has a finish reason: "stop" on the plain adapters,
\* and on the OpenAI-compatible adapters what the finish-reason mapper returns
\* for the finish reason of the first pipeline output.
C21_FinishReason ==
  \A c \in GenerateCalls :
    Resolved(c) =>
      /\ "finishReason" \in DOMAIN calls[c].result
      /\ calls[c].result.finishReason =
           IF kind[calls[c].inst] \in OpenAICompatible
             THEN MapOpenAICompatibleFinishReason(ReportedFinishReason(calls[c].result.rawResponse))
             ELSE "stop"

\* the least n with n * CharsPerToken >= length
TokensFor(length) ==
  CHOOSE n \in 0..length : n * CharsPerToken >= length /\ (n = 0 \/ (n - 1) * CharsPerToken < length)

\* C22: every generate result of every language-model adapter carries usage:
\* promptTokens is the length of the text handed to the pipeline divided by 4
\* and rounded up, completionTokens the same of the generated text; each is
\* positive when its text is not empty.
C22_UsageEstimated ==
  \A c \in GenerateCalls :
    Resolved(c) =>
      /\ "usage" \in DOMAIN calls[c].result
      /\ "text" \in DOMAIN calls[c].result
      /\ calls[c].args[1].prompt.type = "string"
      /\ calls[c].result.usage.promptTokens = TokensFor(Len(calls[c].args[1].prompt.text))
      /\ calls[c].result.usage.completionTokens = TokensFor(Len(calls[c].result.text))
      /\ calls[c].args[1].prompt.text # <<>> => calls[c].result.usage.promptTokens > 0
      /\ calls[c].result.text # <<>> => calls[c].result.usage.completionTokens > 0

\* ---- streams
\* the consumer holds the stream and has read it to its end
ReadToEnd(c) ==
  /\ calls[c].handed
  /\ calls[c].stream.state = "closed"
  /\ calls[c].stream.queue = <<>>

\* C23: a consumer that has read the stream of a stream call to its end has
\* seen an element of type finish after the text-delta elements.
C23_FinishElement ==
  \A c \in StreamCalls :
    ReadToEnd(c) =>
      \E k \in 1..Len(calls[c].received) :
        /\ calls[c].received[k].type = "finish"
        /\ \A j \in 1..Len(calls[c].received) :
             calls[c].received[j].type = "text-delta" => j < k

CompletionStreams == {c \in StreamCalls : kind[calls[c].inst] \notin StreamKinds}

\* C24: in a stream call on a completion adapter every token the runtime emits
\* is delivered to onToken once and in emission order, and the call resolves
\* only when the generation call has resolved, no token following.
C24_TokensDelivered ==
  /\ [](\A c \in CompletionStreams :
         /\ calls[c].delivered = calls[c].emitted
         /\ Resolved(c) => calls[c].gen = "resolved")
  /\ [][\A c \in CallId :
          c \in CompletionStreams /\ Resolved(c) /\ calls'[c].pc # "idle" =>
            calls'[c].delivered = calls[c].delivered]_vars

\* a completion stream call resolved after an empty and a non-empty token
C24_Witness ==
  \E c \in CompletionStreams :
    /\ Resolved(c)
    /\ calls[c].delivered = << <<>>, <<"a">> >>

\* ---- instances
\* C25: adapters made by the same factory method are separate instances with
\* separate pipeline handles: no two instances hold the same handle, a step
\* that stores a handle in one instance is the end of a load of a call on
\* that instance and leaves every other instance's handle as it was, and a
\* call on an instance without a handle starts a load of its own.
C25_NoSharedPipeline ==
  /\ [](\A i, j \in Inst :
         i # j /\ pipelineInstance[i] # NoPipe => pipelineInstance[i] # pipelineInstance[j])
  /\ [][\A i \in Inst :
          pipelineInstance'[i] # pipelineInstance[i] =>
            /\ \E c \in CallId : /\ calls[c].inst = i
                                 /\ calls[c].pc = "loading"
                                 /\ calls'[c].pc = "ensured"
                                 /\ pipelineInstance'[i] = calls[c].loading
            /\ \A j \in Inst \ {i} : pipelineInstance'[j] = pipelineInstance[j]]_vars
  /\ [][\A c \in CallId :
          /\ calls[c].pc = "idle"
          /\ calls'[c].pc \notin {"idle", "rejected"}
          /\ pipelineInstance[calls'[c].inst] = NoPipe
          => calls'[c].pc = "loading" /\ factoryCalls'[calls'[c].inst] = factoryCalls[calls'[c].inst] + 1]_vars

\* two chat adapters: the first has loaded its pipeline, the second is used
\* and loads one of its own
C25_Witness ==
  /\ kind[1] = "chat" /\ kind[2] = "chat"
  /\ pipelineInstance[1] # NoPipe
  /\ pipelineInstance[2] = NoPipe
  /\ \E c \in CallId : calls[c].inst = 2 /\ calls[c].pc = "loading"
                        /\ calls[c].loading # pipelineInstance[1]

\* C26: an instance only moves forward from uninitialized over loading to
\* ready: whoever invokes the pipeline holds a handle a completed load gave,
\* and a stored handle is never cleared and never replaced by another one.
C26_ForwardOnly ==
  /\ [](\A c \in CallId : calls[c].args # <<>> => calls[c].pn # NoPipe)
  /\ [][\A i \in Inst :
          pipelineInstance[i] # NoPipe => pipelineInstance'[i] = pipelineInstance[i]]_vars

\* C27: a failed load rejects the call that started it with the load's error
\* and leaves the instance without a handle; the next call on the instance
\* invokes the factory again, and has the new handle stored and in hand when
\* that load resolves.
C27_LoadRetried ==
  /\ [][\A c \in CallId :
          calls[c].pc = "loading" /\ calls'[c].pc = "rejected" =>
            /\ pipelineInstance' = pipelineInstance
            /\ pipelineInstance'[calls[c].inst] = NoPipe
            /\ calls'[c].error = calls'[c].thrown
            /\ calls'[c].error \in LoadErrors]_vars
  /\ [][\A c \in CallId :
          /\ calls[c].pc = "idle"
          /\ calls'[c].pc \notin {"idle", "rejected"}
          /\ pipelineInstance[calls'[c].inst] = NoPipe
          => /\ calls'[c].pc = "loading"
             /\ factoryCalls'[calls'[c].inst] = factoryCalls[calls'[c].inst] + 1]_vars
  /\ [][\A c \in CallId :
          calls[c].pc = "loading" /\ calls'[c].pc # "rejected" =>
            /\ calls'[c].pc = "ensured"
            /\ calls'[c].pn = calls[c].loading
            /\ pipelineInstance'[calls[c].inst] = calls[c].loading]_vars

\* after a load that failed, a later call loaded the pipeline with a second
\* invocation of the factory and resolved
C27_Witness ==
  /\ factoryCalls[1] = 2
  /\ pipelineInstance[1] = 2
  /\ \E c \in CallId : Resolved(c) /\ calls[c].loads = 1 /\ calls[c].pn = 2

\* C28: in a chat stream the token callback enqueues nothing for an empty
\* token and one text-delta element for every other token: no text-delta
\* element has empty text, and the stream has carried as many elements as
\* non-empty tokens were emitted (counted before an error discards the
\* buffered ones).
C28_EmptyTokenSkipped ==
  /\ [](\A c \in ChatStreams :
         /\ \A k \in 1..Len(Carried(calls[c])) :
              /\ Carried(calls[c])[k].type = "text-delta"
              /\ Carried(calls[c])[k].textDelta # <<>>
         /\ calls[c].stream.state # "errored" =>
              Len(Carried(calls[c])) = Len(NonEmpty(calls[c].emitted)))
  /\ [][\A c \in CallId :
          calls[c].stream.state # "none" /\ Len(calls'[c].emitted) = Len(calls[c].emitted) + 1 =>
            LET token == calls'[c].emitted[Len(calls'[c].emitted)]
            IN IF token = <<>>
                 THEN calls'[c].stream = calls[c].stream
                 ELSE calls'[c].stream.queue =
                        Append(calls[c].stream.queue, [type |-> "text-delta", textDelta |-> token])]_vars

\* an empty token and then a token "a" were emitted: the consumer read one
\* element, "a", and the stream closed
C28_Witness ==
  \E c \in ChatStreams :
    /\ calls[c].emitted = << <<>>, <<"a">> >>
    /\ calls[c].received = << [type |-> "text-delta", textDelta |-> <<"a">>] >>
    /\ calls[c].stream.state = "closed"

\* C29: stream calls running side by side on one chat adapter do not touch
\* each other: each stream carries the non-empty tokens of its own generation
\* call in order (a prefix of them once that call rejected), a step changes
\* the stream of one call at most, and a stream ends only by the settling of
\* its own generation call or a read of its own consumer.
C29_StreamsIsolated ==
  /\ [](\A c \in ChatStreams :
         IF calls[c].stream.state = "errored"
           THEN IsPrefix(Carried(calls[c]), TextDeltas(NonEmpty(calls[c].emitted)))
           ELSE Carried(calls[c]) = TextDeltas(NonEmpty(calls[c].emitted)))
  /\ [][\A c \in CallId :
          calls'[c].stream # calls[c].stream =>
            /\ \A d \in CallId \ {c} :
                 /\ calls'[d].stream = calls[d].stream
                 /\ calls'[d].received = calls[d].received
            /\ Terminal(calls'[c].stream) /\ ~Terminal(calls[c].stream) =>
                 \/ calls[c].gen = "running" /\ calls'[c].gen # "running"
                 \/ Len(calls'[c].received) = Len(calls[c].received) + 1]_vars

\* two stream calls on adapter 1: the first got its token and closed, the
\* second is still readable, its generation running, and has carried nothing
C29_Witness ==
  \E c, d \in ChatStreams :
    /\ c # d
    /\ calls[c].inst = 1 /\ calls[d].inst = 1
    /\ calls[c].emitted = << <<"a">> >>
    /\ calls[c].received = TextDeltas(<< <<"a">> >>)
    /\ calls[c].stream.state = "closed"
    /\ calls[d].gen = "running"
    /\ calls[d].stream.state = "readable"
    /\ Carried(calls[d]) = <<>>
\* the options of a call with their abort signal taken out
Plain(o) == [x \in DOMAIN o \ {"abortSignal"} |-> o[x]]
\* calls whose options carry an abort signal
Signalled == {c \in CallId : "abortSignal" \in DOMAIN calls[c].options}

\* C30: the abort signal of the options is never consulted. Whatever the
\* signal says, before the call or from some point during it: a generate or
\* stream call invokes the pipeline once, an embed call once per value, with
\* the arguments the options without the signal give; the call rejects only
\* with an error that the load or the pipeline threw or that the shape of the
\* output caused; its result, the elements its stream carries and the way
\* the stream ends are those the options without the signal and the
\* pipeline's behaviour give; and the step that aborts the signal changes
\* nothing else.
C30_AbortIgnored ==
  /\ [](\A c \in Signalled :
         LET call == calls[c]
             k == kind[call.inst]
             o == Plain(call.options)
         IN /\ call.pc = "rejected" =>
                 IF call.thrown # NoError THEN call.error = call.thrown
                 ELSE call.op = "generate" /\ call.gen = "resolved" /\ call.error \in {"Error", "TypeError"}
            /\ call.op \in {"generate", "stream"} =>
                 /\ Len(call.args) = IF call.gen = "none" THEN 0 ELSE 1
                 /\ call.pc \in {"generating", "resolved"} => call.gen # "none"
                 /\ \A a \in 1..Len(call.args) : call.args[a] = PipelineArgs(k, o, call.op = "stream")
            /\ call.op = "generate" /\ call.pc = "resolved" =>
                 call.result = GenerateOutcome(k, o, call.result.rawResponse).value
            /\ call.op = "stream" /\ call.pc = "resolved" /\ k \in StreamKinds =>
                 /\ call.result = [rawCall |-> [rawPrompt |-> ConvertPromptToString(o.prompt),
                                                rawSettings |-> GenerationOptions(o)],
                                   request |-> RequestBody(PipelinePrompt(k, o), GenerationOptions(o))]
                 /\ call.gen = "running" => call.stream.state = "readable" /\ ~call.stream.closeRequested
                 /\ call.gen = "resolved" =>
                      \/ call.stream.state = "closed"
                      \/ call.stream.state = "readable" /\ call.stream.closeRequested
                 /\ call.gen = "rejected" =>
                      call.stream.state = "errored" /\ call.stream.storedError = call.thrown
                 /\ IF call.stream.state = "errored"
                      THEN IsPrefix(Carried(call), TextDeltas(NonEmpty(call.emitted)))
                      ELSE Carried(call) = TextDeltas(NonEmpty(call.emitted))
            /\ call.op = "stream" /\ k \notin StreamKinds =>
                 /\ call.delivered = call.emitted
                 /\ call.pc = "resolved" =>
                      call.result.request =
                        RequestBody(o.prompt, GenerationOptions(o)) \o << <<"streamer", "{}">> >>
            /\ call.op = "embed" =>
                 /\ Len(call.args) = Len(call.outputs) + IF call.pc = "embedding" THEN 1 ELSE 0
                 /\ \A a \in 1..Len(call.args) : call.args[a] = [input |-> o.values[a]]
                 /\ call.pc = "resolved" =>
                      /\ Len(call.args) = Len(o.values)
                      /\ call.result = [embeddings |-> call.embeddings,
                                        usage |-> [tokens |-> Len(o.values)]])
  /\ [][\A c \in CallId :
          calls[c].pc # "idle" /\ calls'[c].pc # "idle" /\ calls'[c].options # calls[c].options =>
            /\ calls' = [calls EXCEPT ![c].options = calls'[c].options]
            /\ Plain(calls'[c].options) = Plain(calls[c].options)
            /\ UNCHANGED <<kind, pipelineInstance, factoryCalls, handles>>]_vars

\* a stream call whose signal is aborted has run to its end: the pipeline
\* was invoked, tokens were read off the stream and the stream closed
C30_Witness ==
  \E c \in Signalled :
    /\ calls[c].options.abortSignal.aborted
    /\ calls[c].op = "stream"
    /\ Len(calls[c].args) = 1
    /\ calls[c].stream.state = "closed"
    /\ Len(calls[c].received) > 0

====
